---- MODULE Spec2Model ----
(***************************************************************************)
(* Model of the NachOS process scheduler (threads/scheduler.cc): the ready *)
(* list ordered by priority, SelectNextReadyThread, the context-switch     *)
(* dispatch ScheduleThread (split at _SWITCH, where control leaves the     *)
(* calling thread) and Tail, the fix-up run by a thread entered for the    *)
(* first time.  The callers of the scheduler (yield, sleep, finish, fork)  *)
(* and the List class live outside scheduler.cc; they are modelled from    *)
(* the contracts the specification gives for them.                         *)
(***************************************************************************)
EXTENDS Integers, Sequences, FiniteSets, TLC

\* ------------------------------------------------------------------ bounds
\* Threads that exist, and how many of them are forked and dispatched
NThreads == 4
NForked == 3
MaxTicks == 1
MaxPriority == 1
\* Calls of ScheduleThread against its contract that a run may hold
MaxBreaches == 1
\* Clock ticks of the runs that follow the waiting times
MaxWaitTicks == 2

\* --------------------------------------------------------------- constants
NULL == 0
INT_MAX == 2147483647
MainThread == 1

Threads == 1..NThreads
Forked == 1..NForked
Priorities == 0..MaxPriority

\* ThreadStatus values
JUST_CREATED == "JUST_CREATED"
READY == "READY"
RUNNING == "RUNNING"
BLOCKED == "BLOCKED"
FINISHED == "FINISHED"

VARIABLES
    \* per-thread fields (NachOSThread)
    status, priority, waitSnapshot, burstSnapshot, totalWait,
    space, userRegisters, stackOverflow,
    \* where a thread that is not executing continues when it is switched to:
    \* "entry" (never run: its startup function) or "switch" (inside _SWITCH)
    resume,
    \* number of times `delete` was applied to the thread
    deleteCount,
    \* ProcessScheduler fields
    listOfReadyThreads, algo, busyTime, totalWaiting, totalThreads,
    maxBurst, minBurst, nonZeroBurst,
    \* globals of system.cc used by the scheduler
    currentThread, threadToBeDestroyed, totalTicks,
    machineRegisters, machinePageTable,
    \* control: where the executing thread is, and whether the kernel halted
    pc, halted,
    \* the thread on whose stack the CPU executes (what _SWITCH establishes)
    executing,
    \* caller side: the candidate obtained from SelectNextReadyThread and the
    \* way the current thread is giving up the CPU ("no" when it is not)
    nextThread, leaving,
    \* history: the last operation that ran, when it is a recorded one; the
    \* threads on the ready list in the order they were enqueued, each with
    \* its priority at that moment; the sum of the waits
    \* measured at the dispatches; how often each thread entered the slot;
    \* how often ScheduleThread was called against its contract; for each
    \* thread the clock ticks that passed while it was enqueued and not yet
    \* dispatched to
    lastOp, arrival, waitSum, slotCount, breaches, readyTicks

threadVars == <<status, priority, waitSnapshot, burstSnapshot, totalWait,
                space, userRegisters, stackOverflow, resume, deleteCount>>
burstVars == <<algo, busyTime, totalThreads, maxBurst, minBurst, nonZeroBurst>>
schedVars == <<listOfReadyThreads, totalWaiting, burstVars>>
globalVars == <<currentThread, threadToBeDestroyed, totalTicks,
                machineRegisters, machinePageTable>>
ctlVars == <<pc, halted, executing, nextThread, leaving>>
histVars == <<lastOp, arrival, waitSum, slotCount, breaches, readyTicks>>
vars == <<threadVars, schedVars, globalVars, ctlVars, histVars>>

\* ------------------------------------------------------------ List (list.cc)

\* The items of a list, in stored order.
Items(list) == [i \in 1..Len(list) |-> list[i].item]

InList(list, item) == \E i \in 1..Len(list) : list[i].item = item

\* A list without the first element that holds the item.
RemoveItem(list, item) ==
    LET idx == {i \in 1..Len(list) : list[i].item = item}
    IN  IF idx = {} THEN list
        ELSE LET k == CHOOSE i \in idx : \A j \in idx : i <= j
             IN  SubSeq(list, 1, k - 1) \o SubSeq(list, k + 1, Len(list))

\* List::SortedInsert: the element goes in front of the first element whose
\* key is greater than sortKey, at the end when there is none.
SortedInsert(list, item, sortKey) ==
    LET greater == {i \in 1..Len(list) : sortKey < list[i].key}
        pos == IF greater = {} THEN Len(list) + 1
               ELSE CHOOSE i \in greater : \A j \in greater : i <= j
    IN  SubSeq(list, 1, pos - 1) \o <<[item |-> item, key |-> sortKey]>>
        \o SubSeq(list, pos, Len(list))

\* List::SortedRemove: the first element is taken off; NULL when empty.
SortedRemove(list) ==
    IF list = <<>> THEN [item |-> NULL, key |-> 0, rest |-> list]
    ELSE [item |-> Head(list).item, key |-> Head(list).key, rest |-> Tail(list)]

\* ------------------------------------------------------------------- state

Alive(t) == t \in Threads /\ deleteCount[t] = 0

\* The operations whose name the history keeps; any other resets it.
Recorded == {"SelectNextReadyThread"}

Op(name) == lastOp' = IF name \in Recorded THEN name ELSE "other"

\* Mutant of ProcessScheduler: the smallest burst starts at 0.
ProcessSchedulerMinBurstZero ==
    /\ listOfReadyThreads = <<>>
    /\ algo = 1
    /\ busyTime = 0
    /\ totalWaiting = 0
    /\ totalThreads = 0
    /\ maxBurst = 0
    /\ minBurst = 0
    /\ nonZeroBurst = 0

\* ProcessScheduler::ProcessScheduler (lines 31-41)
ProcessScheduler ==
    /\ listOfReadyThreads = <<>>
    /\ algo = 1
    /\ busyTime = 0
    /\ totalWaiting = 0
    /\ totalThreads = 0
    /\ maxBurst = 0
    /\ minBurst = INT_MAX
    /\ nonZeroBurst = 0

\* The state after system start; `taking` are the threads that take part.
InitWith(taking) ==
    /\ status = [t \in Threads |-> IF t = MainThread THEN RUNNING ELSE JUST_CREATED]
    /\ priority \in {f \in [Threads -> Priorities] : \A t \in Threads \ taking : f[t] = 0}
    /\ waitSnapshot = [t \in Threads |-> 0]
    /\ burstSnapshot = [t \in Threads |-> 0]
    /\ totalWait = [t \in Threads |-> 0]
    /\ space = [t \in Threads |-> t % 2 = 0]
    /\ userRegisters = [t \in Threads |-> IF space[t] THEN t ELSE NULL]
    /\ stackOverflow = [t \in Threads |-> FALSE]
    /\ resume = [t \in Threads |-> "entry"]
    /\ deleteCount = [t \in Threads |-> 0]
    /\ ProcessScheduler
    \* system start: the main thread is running, nothing awaits destruction
    /\ currentThread = MainThread
    /\ threadToBeDestroyed = NULL
    /\ totalTicks = 0
    /\ machineRegisters = IF space[MainThread] THEN MainThread ELSE NULL
    /\ machinePageTable = IF space[MainThread] THEN MainThread ELSE NULL
    /\ pc = "run"
    /\ halted = "no"
    /\ executing = MainThread
    /\ nextThread = NULL
    /\ leaving = "no"
    /\ lastOp = "other"
    /\ arrival = <<>>
    /\ waitSum = 0
    /\ slotCount = [t \in Threads |-> 0]
    /\ breaches = 0
    /\ readyTicks = [t \in Threads |-> 0]

\* --------------------------------------------- scheduler.cc: the operations

\* Mutant of InsertReady: the thread is put at the end whatever its priority
\* (the FIFO list the header of scheduler.cc describes).
InsertReadyFifo(list, thread) ==
    Append(list, [item |-> thread, key |-> priority[thread]])

\* scheduler.cc:68: the thread is inserted under its priority at this moment.
InsertReady(list, thread) == SortedInsert(list, thread, priority[thread])

\* ProcessScheduler::MoveThreadToReadyQueue
MoveThreadToReadyQueue(thread) ==
    /\ status' = [status EXCEPT ![thread] = READY]
    /\ waitSnapshot' = [waitSnapshot EXCEPT ![thread] = totalTicks]
    /\ listOfReadyThreads' = InsertReady(listOfReadyThreads, thread)
    /\ arrival' = Append(arrival, [item |-> thread, key |-> priority[thread]])
    /\ Op("MoveThreadToReadyQueue")
    /\ UNCHANGED <<priority, burstSnapshot, totalWait, space, userRegisters,
                   stackOverflow, resume, deleteCount>>
    /\ UNCHANGED <<totalWaiting, burstVars, globalVars, ctlVars, waitSum, slotCount, breaches,
                   readyTicks>>

\* Mutant of RemoveReady: with nothing ready, the current thread is handed
\* back instead of NULL.
RemoveReadyOrCurrent(list) ==
    IF list = <<>> THEN [item |-> currentThread, key |-> 0, rest |-> list]
    ELSE SortedRemove(list)

\* Mutant of RemoveReady: the first thread is returned and stays on the list.
RemoveReadyPeek(list) ==
    [item |-> SortedRemove(list).item, key |-> SortedRemove(list).key, rest |-> list]

\* Mutant of RemoveReady: the thread whose priority is the smallest now is
\* taken off, the first of them among equals.
RemoveReadyByPriority(list) ==
    IF list = <<>> THEN SortedRemove(list)
    ELSE LET k == CHOOSE i \in 1..Len(list) : \A j \in 1..Len(list) :
                     \/ priority[list[i].item] < priority[list[j].item]
                     \/ priority[list[i].item] = priority[list[j].item] /\ i <= j
         IN  [item |-> list[k].item, key |-> list[k].key,
              rest |-> SubSeq(list, 1, k - 1) \o SubSeq(list, k + 1, Len(list))]

\* scheduler.cc:82: what is taken off the ready list.
RemoveReady(list) == SortedRemove(list)

\* ProcessScheduler::SelectNextReadyThread; the caller keeps the result in
\* its local nextThread.
SelectNextReadyThread ==
    LET r == RemoveReady(listOfReadyThreads)
    IN  /\ listOfReadyThreads' = r.rest
        /\ nextThread' = r.item
        /\ arrival' = RemoveItem(arrival, r.item)
        /\ Op("SelectNextReadyThread")
        /\ UNCHANGED <<threadVars, totalWaiting, burstVars, globalVars,
                       pc, halted, executing, leaving, waitSum, slotCount, breaches,
                   readyTicks>>

\* Mutant of WaitingTime: the wait is computed before currentThread is set
\* to the incoming thread, from the outgoing thread's snapshot.
WaitingTimeStale(incoming) == totalTicks - waitSnapshot[currentThread]

\* scheduler.cc:115-116: the wait charged at a dispatch, read through
\* currentThread after it was set to the incoming thread.
WaitingTime(incoming) == totalTicks - waitSnapshot[incoming]

\* Mutant of AddWait: the wait of this dispatch replaces the total.
AddWaitAssign(total, thread, wait) == [total EXCEPT ![thread] = wait]

\* scheduler.cc:115: currentThread->totalWait += the wait of this dispatch.
AddWait(total, thread, wait) == [total EXCEPT ![thread] = @ + wait]

\* Mutant of SetRunning: the status of the incoming thread is left as it was.
SetRunningSkip(st, thread) == st

\* scheduler.cc:117: the incoming thread is marked.
SetRunning(st, thread) == [st EXCEPT ![thread] = RUNNING]

\* Mutant of SetCurrent: currentThread is left at the outgoing thread.
SetCurrentSkip(oldThread, target) == oldThread

\* scheduler.cc:114: currentThread = nextThread.
SetCurrent(oldThread, target) == target

\* Mutant of CheckOverflow: the stack of the outgoing thread is not looked
\* at.
CheckOverflowSkipped(thread) == TRUE

\* scheduler.cc:111: oldThread->CheckOverflow() passes when the stack of
\* the thread is intact, and stops the kernel otherwise.
CheckOverflow(thread) == ~stackOverflow[thread]

\* ProcessScheduler::ScheduleThread up to and including _SWITCH (lines
\* 102-128).  _SWITCH saves the outgoing thread inside the switch and
\* continues the incoming one where it was left: after its own _SWITCH, or at
\* its startup function when it never ran; either way the CPU is on the
\* stack of the incoming thread afterwards.  A null target is dereferenced
\* at line 115.
ScheduleThread(target) ==
    LET oldThread == currentThread
    IN  /\ userRegisters' = IF space[oldThread]
                            THEN [userRegisters EXCEPT ![oldThread] = machineRegisters]
                            ELSE userRegisters
        /\ IF ~CheckOverflow(oldThread)
           THEN /\ halted' = "assert"
                /\ UNCHANGED <<currentThread, totalWait, totalWaiting, status,
                               burstSnapshot, resume, pc, executing, waitSum>>
           ELSE IF target = NULL
           THEN /\ currentThread' = NULL
                /\ halted' = "segfault"
                /\ UNCHANGED <<totalWait, totalWaiting, status,
                               burstSnapshot, resume, pc, executing, waitSum>>
           ELSE /\ currentThread' = SetCurrent(oldThread, target)
                /\ totalWait' = AddWait(totalWait, target, WaitingTime(target))
                /\ totalWaiting' = totalWaiting + WaitingTime(target)
                /\ status' = SetRunning(status, target)
                /\ burstSnapshot' = [burstSnapshot EXCEPT ![target] = totalTicks]
                /\ resume' = [resume EXCEPT ![oldThread] = "switch"]
                /\ executing' = target
                /\ pc' = IF resume'[target] = "entry" THEN "firstEntry" ELSE "afterSwitch"
                /\ waitSum' = waitSum + (totalTicks - waitSnapshot[target])
                /\ halted' = halted
        /\ Op("ScheduleThread")
        /\ UNCHANGED <<priority, waitSnapshot, space, stackOverflow, deleteCount>>
        /\ UNCHANGED <<listOfReadyThreads, burstVars, threadToBeDestroyed, totalTicks,
                       machineRegisters, machinePageTable, arrival, slotCount,
                       readyTicks>>

\* `delete` of a thread object; 2 stands for "more than once".
Deleted(count, thread) ==
    [count EXCEPT ![thread] = IF @ < 2 THEN @ + 1 ELSE 2]

\* Mutant of ScheduleThreadReturn: the carcass is deleted and the slot keeps
\* pointing at it.
ScheduleThreadReturnKeepSlot ==
    /\ pc = "afterSwitch"
    /\ halted = "no"
    /\ IF threadToBeDestroyed # NULL
       THEN deleteCount' = Deleted(deleteCount, threadToBeDestroyed)
       ELSE UNCHANGED deleteCount
    /\ IF space[currentThread]
       THEN /\ machineRegisters' = userRegisters[currentThread]
            /\ machinePageTable' = currentThread
       ELSE UNCHANGED <<machineRegisters, machinePageTable>>
    /\ pc' = "run"
    /\ Op("ScheduleThreadReturn")
    /\ UNCHANGED <<status, priority, waitSnapshot, burstSnapshot, totalWait,
                   space, userRegisters, stackOverflow, resume, threadToBeDestroyed>>
    /\ UNCHANGED <<schedVars, currentThread, totalTicks, halted, executing, nextThread,
                   leaving, arrival, waitSum, slotCount, breaches,
                   readyTicks>>

\* ProcessScheduler::ScheduleThread after _SWITCH returns (lines 130-147),
\* run by the thread that executes at `at`.
ScheduleThreadReturnAt(at) ==
    /\ pc = at
    /\ halted = "no"
    /\ IF threadToBeDestroyed # NULL
       THEN /\ deleteCount' = Deleted(deleteCount, threadToBeDestroyed)
            /\ threadToBeDestroyed' = NULL
       ELSE UNCHANGED <<deleteCount, threadToBeDestroyed>>
    /\ IF space[currentThread]
       THEN /\ machineRegisters' = userRegisters[currentThread]
            /\ machinePageTable' = currentThread
       ELSE UNCHANGED <<machineRegisters, machinePageTable>>
    /\ pc' = "run"
    /\ Op("ScheduleThreadReturn")
    /\ UNCHANGED <<status, priority, waitSnapshot, burstSnapshot, totalWait,
                   space, userRegisters, stackOverflow, resume>>
    /\ UNCHANGED <<schedVars, currentThread, totalTicks, halted, executing, nextThread,
                   leaving, arrival, waitSum, slotCount, breaches,
                   readyTicks>>

\* The part of ScheduleThread after _SWITCH as the thread that was switched
\* back to runs it.
ScheduleThreadReturn == ScheduleThreadReturnAt("afterSwitch")

\* Mutant of TailFixup: the carcass is deleted and the slot keeps pointing at
\* it.
TailFixupKeepSlot ==
    /\ pc = "firstEntry"
    /\ halted = "no"
    /\ IF threadToBeDestroyed # NULL
       THEN deleteCount' = Deleted(deleteCount, threadToBeDestroyed)
       ELSE UNCHANGED deleteCount
    /\ IF space[currentThread]
       THEN /\ machineRegisters' = userRegisters[currentThread]
            /\ machinePageTable' = currentThread
       ELSE UNCHANGED <<machineRegisters, machinePageTable>>
    /\ pc' = "run"
    /\ Op("Tail")
    /\ UNCHANGED <<status, priority, waitSnapshot, burstSnapshot, totalWait,
                   space, userRegisters, stackOverflow, resume, threadToBeDestroyed>>
    /\ UNCHANGED <<schedVars, currentThread, totalTicks, halted, executing, nextThread,
                   leaving, arrival, waitSum, slotCount, breaches,
                   readyTicks>>

\* Mutant of TailFixupAt: the user state is restored whether or not the
\* current thread has an address space.
TailFixupAtRestoreAlways(at) ==
    /\ pc = at
    /\ halted = "no"
    /\ IF threadToBeDestroyed # NULL
       THEN /\ deleteCount' = Deleted(deleteCount, threadToBeDestroyed)
            /\ threadToBeDestroyed' = NULL
       ELSE UNCHANGED <<deleteCount, threadToBeDestroyed>>
    /\ machineRegisters' = userRegisters[currentThread]
    /\ machinePageTable' = currentThread
    /\ pc' = "run"
    /\ Op("Tail")
    /\ UNCHANGED <<status, priority, waitSnapshot, burstSnapshot, totalWait,
                   space, userRegisters, stackOverflow, resume>>
    /\ UNCHANGED <<schedVars, currentThread, totalTicks, halted, executing, nextThread,
                   leaving, arrival, waitSum, slotCount, breaches,
                   readyTicks>>

\* ProcessScheduler::Tail (lines 155-173), called by the thread that
\* executes at `at`; the caller goes on running.
TailFixupAt(at) ==
    /\ pc = at
    /\ halted = "no"
    /\ IF threadToBeDestroyed # NULL
       THEN /\ deleteCount' = Deleted(deleteCount, threadToBeDestroyed)
            /\ threadToBeDestroyed' = NULL
       ELSE UNCHANGED <<deleteCount, threadToBeDestroyed>>
    /\ IF space[currentThread]
       THEN /\ machineRegisters' = userRegisters[currentThread]
            /\ machinePageTable' = currentThread
       ELSE UNCHANGED <<machineRegisters, machinePageTable>>
    /\ pc' = "run"
    /\ Op("Tail")
    /\ UNCHANGED <<status, priority, waitSnapshot, burstSnapshot, totalWait,
                   space, userRegisters, stackOverflow, resume>>
    /\ UNCHANGED <<schedVars, currentThread, totalTicks, halted, executing, nextThread,
                   leaving, arrival, waitSum, slotCount, breaches,
                   readyTicks>>

\* ProcessScheduler::Tail as the startup function of a thread entered for
\* the first time runs it.
TailFixup == TailFixupAt("firstEntry")

\* ProcessScheduler::Print (lines 180-185): Mapcar reads the list.
PrintReadyList ==
    /\ pc = "run"
    /\ halted = "no"
    /\ Op("PrintReadyList")
    /\ UNCHANGED <<threadVars, schedVars, globalVars, ctlVars, arrival, waitSum, slotCount, breaches,
                   readyTicks>>

\* ------------------------------------- the callers (thread.cc, interrupts)

Running == pc = "run" /\ halted = "no"

\* A thread that was enqueued and has not been dispatched to since: it is on
\* the ready list, or it is the candidate its selector holds.
Awaiting(t) == InList(listOfReadyThreads, t) \/ t = nextThread

\* The clock advances while a thread runs, up to `max`.
TickTo(max) ==
    /\ Running
    /\ totalTicks < max
    /\ totalTicks' = totalTicks + 1
    /\ Op("Tick")
    /\ readyTicks' = [t \in Threads |->
                        IF Awaiting(t) THEN readyTicks[t] + 1 ELSE readyTicks[t]]
    /\ UNCHANGED <<threadVars, schedVars, currentThread, threadToBeDestroyed,
                   machineRegisters, machinePageTable, ctlVars, arrival, waitSum,
                   slotCount, breaches>>

Tick == TickTo(MaxTicks)

TickLong == TickTo(MaxWaitTicks)

\* The priority of a thread is recomputed by its owner at any time.
SetPriority(t, p) ==
    /\ Running
    /\ Alive(t)
    /\ priority[t] # p
    /\ priority' = [priority EXCEPT ![t] = p]
    /\ Op("SetPriority")
    /\ UNCHANGED <<status, waitSnapshot, burstSnapshot, totalWait, space,
                   userRegisters, stackOverflow, resume, deleteCount>>
    /\ UNCHANGED <<schedVars, globalVars, ctlVars, arrival, waitSum, slotCount, breaches,
                   readyTicks>>

\* The running thread has written past the end of its stack.  Only the check
\* at a dispatch reads the damage, so it is introduced when the thread is
\* about to dispatch.
OverflowStack ==
    /\ Running
    /\ leaving # "no"
    /\ nextThread # NULL
    /\ ~stackOverflow[currentThread]
    /\ stackOverflow' = [stackOverflow EXCEPT ![currentThread] = TRUE]
    /\ Op("OverflowStack")
    /\ UNCHANGED <<status, priority, waitSnapshot, burstSnapshot, totalWait, space,
                   userRegisters, resume, deleteCount>>
    /\ UNCHANGED <<schedVars, globalVars, ctlVars, arrival, waitSum, slotCount, breaches,
                   readyTicks>>

\* The running thread prepares to give up the CPU: it yields (READY), waits
\* (BLOCKED) or finishes.  A finishing thread puts itself in the slot and is
\* marked FINISHED or left RUNNING.
Relinquish(how, mark) ==
    /\ Running
    /\ leaving = "no"
    /\ how \in {"yield", "sleep", "finish"}
    /\ leaving' = how
    /\ status' = [status EXCEPT ![currentThread] =
                    CASE how = "yield" -> READY
                      [] how = "sleep" -> BLOCKED
                      [] OTHER -> IF mark THEN FINISHED ELSE @]
    /\ IF how = "finish"
       THEN /\ threadToBeDestroyed' = currentThread
            /\ slotCount' = [slotCount EXCEPT ![currentThread] = @ + 1]
       ELSE UNCHANGED <<threadToBeDestroyed, slotCount>>
    /\ Op("Relinquish")
    /\ UNCHANGED <<priority, waitSnapshot, burstSnapshot, totalWait, space,
                   userRegisters, stackOverflow, resume, deleteCount>>
    /\ UNCHANGED <<schedVars, currentThread, totalTicks, machineRegisters,
                   machinePageTable, pc, halted, executing, nextThread, arrival, waitSum,
                   breaches, readyTicks>>

\* A thread may be made ready when it exists, is not the current thread, is
\* not on the ready list, is not held as the candidate of a dispatch and has
\* not finished.
MayMakeReady(t) ==
    /\ Alive(t)
    /\ t # currentThread
    /\ ~InList(listOfReadyThreads, t)
    /\ t # nextThread
    /\ t # threadToBeDestroyed
    /\ status[t] # FINISHED

MakeReady(t) ==
    /\ Running
    /\ MayMakeReady(t)
    /\ MoveThreadToReadyQueue(t)

\* The caller asks for a candidate when it holds none.
SelectNext ==
    /\ Running
    /\ nextThread = NULL
    /\ SelectNextReadyThread

\* The caller dispatches to the candidate it holds, after the status of the
\* outgoing thread was updated.
Dispatch ==
    /\ Running
    /\ leaving # "no"
    /\ nextThread # NULL
    /\ ScheduleThread(nextThread)
    /\ nextThread' = NULL
    /\ leaving' = "no"
    /\ UNCHANGED breaches

\* A thread that already runs calls Tail once more, while no thread awaits
\* destruction.
TailFixupAgain ==
    /\ threadToBeDestroyed = NULL
    /\ TailFixupAt("run")

\* A caller that breaks the contract of ScheduleThread: the target is null
\* or the current thread.
DispatchInvalid(target) ==
    /\ Running
    /\ target \in {NULL, currentThread}
    /\ breaches < MaxBreaches
    /\ breaches' = breaches + 1
    /\ ScheduleThread(target)
    /\ UNCHANGED <<nextThread, leaving>>

Init == InitWith(Forked)

Next ==
    \/ Tick
    \/ \E t \in Forked, p \in Priorities : SetPriority(t, p)
    \/ \E how \in {"yield", "sleep", "finish"}, mark \in BOOLEAN : Relinquish(how, mark)
    \/ \E t \in Forked : MakeReady(t)
    \/ SelectNext
    \/ Dispatch
    \/ ScheduleThreadReturn
    \/ TailFixup
    \/ TailFixupAgain
    \/ PrintReadyList

Spec == Init /\ [][Next]_vars

\* Runs in which a caller may break the contract of ScheduleThread; the
\* priorities play no part in them and stay as they start.
InitInvalid == InitWith({})

NextInvalid ==
    \/ Tick
    \/ \E how \in {"yield", "sleep", "finish"}, mark \in BOOLEAN : Relinquish(how, mark)
    \/ \E t \in Forked : MakeReady(t)
    \/ SelectNext
    \/ Dispatch
    \/ ScheduleThreadReturn
    \/ TailFixup
    \/ \E target \in Forked \cup {NULL} : DispatchInvalid(target)

SpecInvalid == InitInvalid /\ [][NextInvalid]_vars

\* The ready list alone: every thread may be enqueued, and the caller of
\* SelectNextReadyThread lets go of the thread it got before it asks again.
InitQueue == InitWith(Threads)

SelectAgain ==
    /\ Running
    /\ SelectNextReadyThread

NextQueue ==
    \/ Tick
    \/ \E t \in Threads, p \in Priorities : SetPriority(t, p)
    \/ \E t \in Threads : MakeReady(t)
    \/ SelectAgain
    \/ PrintReadyList

SpecQueue == InitQueue /\ [][NextQueue]_vars

\* Runs in which the running thread may have written past its stack before
\* it dispatches; the priorities play no part in them and stay as they start.
NextOverflow ==
    \/ Tick
    \/ \E how \in {"yield", "sleep", "finish"}, mark \in BOOLEAN : Relinquish(how, mark)
    \/ \E t \in Forked : MakeReady(t)
    \/ SelectNext
    \/ OverflowStack
    \/ Dispatch
    \/ ScheduleThreadReturn
    \/ TailFixup

SpecOverflow == InitInvalid /\ [][NextOverflow]_vars

\* Runs that follow the waiting times over a longer stretch of the clock;
\* the priorities stay as they start.
NextWait ==
    \/ TickLong
    \/ \E how \in {"yield", "sleep", "finish"}, mark \in BOOLEAN : Relinquish(how, mark)
    \/ \E t \in Forked : MakeReady(t)
    \/ SelectNext
    \/ Dispatch
    \/ ScheduleThreadReturn
    \/ TailFixup

SpecWait == InitInvalid /\ [][NextWait]_vars

\* ------------------------------------------------------------------ claims

\* The place of a thread in the order of enqueuing.
ArrivalIndex(t) == CHOOSE i \in 1..Len(arrival) : arrival[i].item = t

C2_EmptySelectChangesNothing ==
    [][(SelectNextReadyThread /\ listOfReadyThreads = <<>>) =>
         /\ nextThread' = NULL
         /\ UNCHANGED <<threadVars, schedVars, globalVars, pc, halted, leaving>>]_vars

\* C2 witness: a thread that was dispatched to has asked an empty ready list
\* and holds NULL.
C2_Witness ==
    /\ lastOp = "SelectNextReadyThread"
    /\ listOfReadyThreads = <<>>
    /\ nextThread = NULL
    /\ currentThread # MainThread

\* C3: the aggregate waiting time is the sum, over the dispatches made so
\* far, of the clock tick at the dispatch less the waitSnapshot of the thread
\* dispatched to; and a dispatch adds that same amount to the totalWait of the
\* thread it dispatches to.
C3_WaitAccounting ==
    /\ [](totalWaiting = waitSum)
    /\ [][(Dispatch /\ halted' = "no") =>
            /\ totalWaiting' - totalWaiting = totalTicks - waitSnapshot[nextThread]
            /\ totalWait'[nextThread] - totalWait[nextThread]
                  = totalWaiting' - totalWaiting
            /\ \A t \in Threads \ {nextThread} : totalWait'[t] = totalWait[t]]_vars

\* C3 witness: a second dispatch has happened, each charged one tick of wait,
\* and the thread now dispatched to carries only its own.
C3_Witness ==
    /\ pc # "run"
    /\ totalWaiting = 2
    /\ totalWait[currentThread] = 1
    /\ waitSnapshot[currentThread] = 0
    /\ totalTicks = 1

\* C4: a thread is deleted at most once, and only when it sits in the slot,
\* is not the current thread and was left inside _SWITCH, so control is off
\* its stack; the fix-up that follows the switch away from it deletes it.
C4_DestroyedOnceOffStack ==
    /\ [](\A t \in Threads : deleteCount[t] <= 1)
    /\ [][((ScheduleThreadReturn \/ TailFixup) /\ threadToBeDestroyed # NULL) =>
            deleteCount'[threadToBeDestroyed] = 1]_vars
    /\ [][\A t \in Threads :
            deleteCount'[t] # deleteCount[t] =>
              /\ t = threadToBeDestroyed
              /\ t # currentThread
              /\ resume[t] = "switch"
              /\ pc \in {"afterSwitch", "firstEntry"}]_vars

\* C4 witness: a thread that finished and entered the slot once has been
\* deleted once.
C4_Witness ==
    \E t \in Threads :
        /\ slotCount[t] = 1
        /\ deleteCount[t] = 1
        /\ status[t] = FINISHED
        /\ threadToBeDestroyed = NULL

\* C5: after the part of ScheduleThread that follows _SWITCH, and after Tail,
\* the slot is empty; a thread enters the slot at most once, and while it is
\* in the slot it has not been deleted.
C5_SlotEmptiedAndUsedOnce ==
    /\ [][(ScheduleThreadReturn \/ TailFixup) => threadToBeDestroyed' = NULL]_vars
    /\ [](\A t \in Threads : slotCount[t] <= 1)
    /\ [](threadToBeDestroyed # NULL =>
            /\ slotCount[threadToBeDestroyed] = 1
            /\ deleteCount[threadToBeDestroyed] = 0)

\* C5 witness: the thread resumed after _SWITCH has run the fix-up with a
\* finished thread in the slot, and the slot is empty.
C5_Witness ==
    /\ pc = "run"
    /\ threadToBeDestroyed = NULL
    /\ resume[currentThread] = "switch"
    /\ \E t \in Threads : deleteCount[t] = 1 /\ resume[t] = "switch" /\ t # MainThread

\* The threads that exist and are marked RUNNING.
RunningThreads == {t \in Threads : Alive(t) /\ status[t] = RUNNING}

C7_RunningThreadNotReady ==
    halted = "no" =>
        /\ ~InList(listOfReadyThreads, currentThread)
        /\ \A i \in 1..Len(listOfReadyThreads) :
              status[listOfReadyThreads[i].item] # RUNNING

\* C7 witness: a thread taken off the ready list was dispatched to, and runs
\* while other threads are on the list.
C7_Witness ==
    /\ pc = "run"
    /\ currentThread # MainThread
    /\ status[currentThread] = RUNNING
    /\ Len(listOfReadyThreads) = 2

\* C8: a dispatch makes its target the current thread, marks it RUNNING and
\* sets its burstSnapshot to the clock tick, in the step that ends in the
\* switch and before any fix-up; the status of the outgoing thread stays.
C8_DispatchMarksIncoming ==
    [][(Dispatch /\ halted' = "no") =>
         /\ currentThread' = nextThread
         /\ status'[nextThread] = RUNNING
         /\ burstSnapshot'[nextThread] = totalTicks
         /\ status'[currentThread] = status[currentThread]
         /\ pc' \in {"afterSwitch", "firstEntry"}
         /\ resume'[currentThread] = "switch"]_vars

\* C8 witness: the switch to a thread was made at tick 1 and its fix-up has
\* not run; the outgoing thread is still BLOCKED.
C8_Witness ==
    /\ pc \in {"afterSwitch", "firstEntry"}
    /\ status[currentThread] = RUNNING
    /\ burstSnapshot[currentThread] = 1
    /\ \E t \in Threads \ {currentThread} : resume[t] = "switch" /\ status[t] = BLOCKED

C10_InvalidDispatchIsFatal ==
    [][(\E target \in Threads \cup {NULL} : DispatchInvalid(target)) =>
         /\ halted' # "no"
         /\ UNCHANGED <<totalWait, totalWaiting, status, burstSnapshot,
                        pc, resume>>]_vars

\* C11: a dispatch made while the stack of the outgoing thread is overflowed
\* stops the kernel at the check, before currentThread is set: the current
\* thread, every status, totalWait and burstSnapshot and the aggregate
\* waiting time stay, and no switch is made (no thread is left inside
\* _SWITCH, control stays where it was).
C11_OverflowStopsDispatch ==
    [][(Dispatch /\ stackOverflow[currentThread]) =>
         /\ halted' = "assert"
         /\ UNCHANGED <<currentThread, status, totalWait, burstSnapshot,
                        totalWaiting, resume, pc>>]_vars

\* C11 witness: the kernel stopped at the check of a blocked thread with an
\* overflowed stack; the thread it was to dispatch to waited one tick and
\* was charged none.
C11_Witness ==
    /\ halted = "assert"
    /\ stackOverflow[currentThread]
    /\ status[currentThread] = BLOCKED
    /\ \E t \in Threads \ {currentThread} :
          /\ status[t] = READY
          /\ ~InList(listOfReadyThreads, t)
          /\ waitSnapshot[t] < totalTicks
          /\ totalWait[t] = 0
          /\ totalWaiting = 0

\* C12: Tail called while the slot is empty and the current thread has no
\* address space changes no field of a thread, of the scheduler or of the
\* globals; called by a thread that already runs it leaves control where it
\* was too, so any number of such calls ends in the state they started from.
C12_TailFixupNoOp ==
    /\ [][((TailFixup \/ TailFixupAgain) /\ threadToBeDestroyed = NULL
                                         /\ ~space[currentThread]) =>
            UNCHANGED <<threadVars, schedVars, globalVars, halted,
                        nextThread, leaving>>]_vars
    /\ [][(TailFixupAgain /\ ~space[currentThread]) =>
            UNCHANGED <<threadVars, schedVars, globalVars, ctlVars>>]_vars

\* C12 witness: a thread without address space was entered for the first
\* time while the slot was empty (no thread was ever deleted), has run Tail
\* and runs on, after a thread with an address space had the machine.
C12_Witness ==
    /\ pc = "run"
    /\ halted = "no"
    /\ currentThread # MainThread
    /\ ~space[currentThread]
    /\ resume[currentThread] = "entry"
    /\ threadToBeDestroyed = NULL
    /\ \A t \in Threads : deleteCount[t] = 0
    /\ machinePageTable # NULL

\* C13: whenever a finishing thread is placed in the slot, the slot is
\* empty; and every thread that was ever placed in the slot and is not in it
\* now has been deleted, exactly once, by a fix-up (ScheduleThread after
\* _SWITCH, or Tail).
C13_SlotNeverOverwritten ==
    /\ [][(\E mark \in BOOLEAN : Relinquish("finish", mark)) =>
            /\ threadToBeDestroyed = NULL
            /\ threadToBeDestroyed' = currentThread]_vars
    /\ [](\A t \in Threads :
            (slotCount[t] > 0 /\ t # threadToBeDestroyed) => deleteCount[t] = 1)
    /\ [][\A t \in Threads :
            deleteCount'[t] # deleteCount[t] =>
               (ScheduleThreadReturn \/ TailFixup) /\ slotCount[t] = 1]_vars

\* C13 witness: a second finishing thread sits in the slot after the first
\* occupant was deleted by the fix-up of the thread it switched to.
C13_Witness ==
    /\ threadToBeDestroyed # NULL
    /\ threadToBeDestroyed = currentThread
    /\ \E t \in Threads \ {threadToBeDestroyed} :
          slotCount[t] = 1 /\ deleteCount[t] = 1

\* C14: whenever a thread executes outside the entry sequence of a dispatch
\* (it runs, or it is at the fix-up after _SWITCH or at its first entry),
\* currentThread is the thread whose stack the CPU is on, and that thread
\* exists; after _SWITCH the activation that goes on is the earlier
\* ScheduleThread call of the current thread itself, not the call that made
\* the switch.
C14_CurrentThreadIsExecuting ==
    /\ [](halted = "no" =>
            /\ currentThread = executing
            /\ Alive(executing)
            /\ (pc = "afterSwitch" => resume[currentThread] = "switch")
            /\ (pc = "firstEntry" => resume[currentThread] = "entry"))
    /\ [][(Dispatch /\ halted' = "no") =>
            /\ executing' = nextThread
            /\ executing' # executing
            /\ resume'[executing] = "switch"]_vars

\* C14 witness: the main thread was switched back to and is at the fix-up
\* after its own _SWITCH, while the thread that made the switch is blocked
\* inside its first ScheduleThread call.
C14_Witness ==
    /\ pc = "afterSwitch"
    /\ halted = "no"
    /\ currentThread = MainThread
    /\ executing = MainThread
    /\ \E t \in Threads \ {MainThread} :
          /\ resume[t] = "switch"
          /\ status[t] = BLOCKED
          /\ Alive(t)

\* C15: from every state in which a fix-up runs, Tail and the part of
\* ScheduleThread after _SWITCH make the same step: the same slot, the same
\* deletions, the same restore of the user state of the current thread, and
\* nothing else changed.
C15_TailEqualsAfterSwitch ==
    /\ [][ScheduleThreadReturn => TailFixupAt("afterSwitch")]_vars
    /\ [][TailFixup => ScheduleThreadReturnAt("firstEntry")]_vars
    /\ [][TailFixupAgain => ScheduleThreadReturnAt("run")]_vars

\* C15 witness: a thread with an address space, entered for the first time,
\* has run Tail, which deleted the finished thread in the slot and restored
\* the user state.
C15_Witness ==
    /\ pc = "run"
    /\ space[currentThread]
    /\ resume[currentThread] = "entry"
    /\ machinePageTable = currentThread
    /\ machineRegisters = userRegisters[currentThread]
    /\ threadToBeDestroyed = NULL
    /\ \E t \in Threads : deleteCount[t] = 1 /\ slotCount[t] = 1

C17_BurstAggregatesOnlyInitialised ==
    /\ busyTime = 0 /\ totalThreads = 0 /\ maxBurst = 0 /\ minBurst = INT_MAX
    /\ nonZeroBurst = 0 /\ totalWaiting = 0 /\ listOfReadyThreads = <<>>
    /\ [][UNCHANGED <<busyTime, totalThreads, maxBurst, minBurst,
                      nonZeroBurst>>]_vars
    /\ [](/\ busyTime = 0 /\ totalThreads = 0 /\ maxBurst = 0
          /\ minBurst = INT_MAX /\ nonZeroBurst = 0)

\* C17 witness: threads were enqueued, selected and dispatched to, one was
\* deleted by a fix-up and a burst began at tick 1; the aggregate waiting
\* time moved and the burst aggregates are as constructed.
C17_Witness ==
    /\ pc = "run"
    /\ totalWaiting > 0
    /\ burstSnapshot[currentThread] = 1
    /\ listOfReadyThreads # <<>>
    /\ \E t \in Threads : deleteCount[t] = 1
    /\ busyTime = 0 /\ totalThreads = 0 /\ maxBurst = 0
    /\ minBurst = INT_MAX /\ nonZeroBurst = 0

\* The sum of totalWait over a set of threads.
RECURSIVE SumTotalWait(_)
SumTotalWait(S) ==
    IF S = {} THEN 0
    ELSE LET t == CHOOSE x \in S : TRUE
         IN  totalWait[t] + SumTotalWait(S \ {t})

\* C18: the aggregate waiting time is the sum of totalWait over all threads,
\* deleted ones included (a thread never dispatched to has totalWait 0); and
\* no step lowers the aggregate or the totalWait of any thread.
C18_AggregateIsSumAndMonotone ==
    /\ [](totalWaiting = SumTotalWait(Threads))
    /\ [][/\ totalWaiting' >= totalWaiting
          /\ \A t \in Threads : totalWait'[t] >= totalWait[t]]_vars

\* C18 witness: a thread charged for two waits, a deleted thread charged for
\* one, and an aggregate that holds them all.
C18_Witness ==
    /\ halted = "no"
    /\ \E t, u \in Threads :
          /\ t # u
          /\ deleteCount[t] = 1
          /\ totalWait[t] = 1
          /\ totalWait[u] = 2
          /\ totalWaiting >= 3

\* How often a thread occurs in a list.
Count(list, t) == Cardinality({i \in 1..Len(list) : list[i].item = t})

\* C19: the ready list holds exactly the threads enqueued and not yet
\* returned, each once (the threads returned so far and the members make up
\* the threads enqueued so far); SelectNextReadyThread returns a member and
\* takes off that one occurrence only, moving every other member one place
\* nearer to the front, so a member at place k is returned by the k-th call
\* that follows when nothing is enqueued in front of it; only
\* MoveThreadToReadyQueue adds a member, and neither ScheduleThread nor Tail
\* changes the list.
C19_ReadyListConserved ==
    /\ [](\A t \in Threads :
            /\ Count(listOfReadyThreads, t) = Count(arrival, t)
            /\ Count(listOfReadyThreads, t) <= 1)
    /\ [][(SelectNextReadyThread /\ listOfReadyThreads # <<>>) =>
            /\ nextThread' = listOfReadyThreads[1].item
            /\ Count(arrival, nextThread') = 1
            /\ Count(arrival', nextThread') = 0
            /\ Len(listOfReadyThreads') = Len(listOfReadyThreads) - 1
            /\ \A i \in 1..Len(listOfReadyThreads') :
                  listOfReadyThreads'[i] = listOfReadyThreads[i + 1]]_vars
    /\ [][\A t \in Threads :
            Count(listOfReadyThreads', t) > Count(listOfReadyThreads, t) =>
               MakeReady(t)]_vars
    /\ [][\A t \in Threads :
            Count(listOfReadyThreads', t) < Count(listOfReadyThreads, t) =>
               SelectNextReadyThread /\ nextThread' = t]_vars
    /\ [][(Dispatch \/ ScheduleThreadReturn \/ TailFixup \/ TailFixupAgain) =>
            UNCHANGED <<listOfReadyThreads, arrival>>]_vars

\* C19 witness: a thread that ran before (it was enqueued, returned and
\* dispatched to) was enqueued again and has been returned a second time;
\* a thread of greater key is still a member.
C19_Witness ==
    /\ lastOp = "SelectNextReadyThread"
    /\ nextThread # NULL
    /\ resume[nextThread] = "switch"
    /\ totalWait[nextThread] > 0
    /\ Count(listOfReadyThreads, nextThread) = 0
    /\ Len(listOfReadyThreads) = 1
    /\ Count(arrival, listOfReadyThreads[1].item) = 1
    /\ arrival[1].key > priority[nextThread]

====
